---- MODULE Spec2Model ----
(***************************************************************************)
(* Smart Batch Playlist Manager for Spotify (src/app.py).                  *)
(*                                                                         *)
(* The module models                                                       *)
(*   - the pure helpers of the background task: the episode classifier     *)
(*     (_process_episodes_for_show) and the backlog batcher                *)
(*     (_determine_next_backlog_batch);                                    *)
(*   - the update worker run_update_task, one step per remote call or      *)
(*     state-file write, with every call that can raise raising            *)
(*     nondeterministically;                                               *)
(*   - the Flask request handlers that touch the job registry and the      *)
(*     state file (start_update, create_playlist_and_scan, set_playlist,   *)
(*     status), run by the threaded development server.                    *)
(*                                                                         *)
(* Three specifications share the variables:                               *)
(*   SpecBatch    applies the batcher to drawn backlogs,                   *)
(*   SpecClassify applies the classifier to drawn feeds,                   *)
(*   Spec         is the whole server for one user.                        *)
(*                                                                         *)
(* Abstractions.  Instants (release_date, last_update_ts, now) are         *)
(* naturals, 0 being the epoch '1970-01-01T00:00:00Z'.  A key missing from *)
(* the state file is represented by the default the code reads for it.     *)
(* Titles are sequences of one-character strings.  An episode URI is the   *)
(* pair <<"episode", id>>.                                                 *)
(***************************************************************************)
EXTENDS Integers, Sequences, FiniteSets, TLC

VARIABLES bt, cl, disk, background_jobs, playlists, req, wk, now, saved, catalog, dispatched

batchvars == <<bt>>
classvars == <<cl>>
sysvars == <<disk, background_jobs, playlists, req, wk, now, saved, catalog, dispatched>>
vars == <<bt, cl, disk, background_jobs, playlists, req, wk, now, saved, catalog, dispatched>>

(***************************************************************************)
(* Bounds of the model.                                                    *)
(***************************************************************************)
MaxBacklog == 3
MaxCalls == 4
MaxFeed == 3
MaxTime == 2
MaxRuns == 2
MaxMinDuration == 3
MaxCursor == 4

(***************************************************************************)
(* Program constants.                                                      *)
(***************************************************************************)
MsPerMinute == 60000
CheckpointEvery == 10
ChunkSize == 100
NoEpisode == 0
Epoch == 0
NoMinute == 0 - 1

Range(s) == {s[i] : i \in 1..Len(s)}

SeqsUpTo(S, n) == UNION {[1..k -> S] : k \in 0..n}

SetMin(S) == CHOOSE x \in S : \A y \in S : x <= y

RECURSIVE SortedSeq(_)
SortedSeq(S) == IF S = {} THEN <<>> ELSE <<SetMin(S)>> \o SortedSeq(S \ {SetMin(S)})

(***************************************************************************)
(* Titles and the blocklist.                                               *)
(***************************************************************************)
UpperCase == <<"A", "B", "C", "D", "E", "F", "G", "H", "I", "J", "K", "L", "M",
               "N", "O", "P", "Q", "R", "S", "T", "U", "V", "W", "X", "Y", "Z">>
LowerCase == <<"a", "b", "c", "d", "e", "f", "g", "h", "i", "j", "k", "l", "m",
               "n", "o", "p", "q", "r", "s", "t", "u", "v", "w", "x", "y", "z">>

LowerChar(c) == IF \E i \in 1..26 : UpperCase[i] = c
                THEN LowerCase[CHOOSE i \in 1..26 : UpperCase[i] = c]
                ELSE c

Lower(s) == [i \in 1..Len(s) |-> LowerChar(s[i])]

Contains(kw, s) ==
    \E i \in 1..(Len(s) - Len(kw) + 1) : \A j \in 1..Len(kw) : s[i + j - 1] = kw[j]

BLOCKLIST_KEYWORDS == { <<"t", "r", "a", "i", "l", "e", "r">>,
                        <<"b", "o", "n", "u", "s", ":">>,
                        <<"r", "e", "p", "l", "a", "y", ":">>,
                        <<"a", "n", "n", "o", "u", "n", "c", "e", "m", "e", "n", "t">>,
                        <<"p", "r", "e", "v", "i", "e", "w">> }

IsBlocklistedNoLower(name) == \E kw \in BLOCKLIST_KEYWORDS : Contains(kw, name)

IsBlocklisted(name) ==
    LET lowered == Lower(name)
    IN  \E kw \in BLOCKLIST_KEYWORDS : Contains(kw, lowered)

TitleNews == <<"N", "e", "w", "s">>
TitleTrailer == <<"S", "2", " ", "T", "R", "A", "I", "L", "E", "R">>
TitleBonus == <<"b", "o", "n", "u", "s">>
Titles == {TitleNews, TitleTrailer, TitleBonus}

(***************************************************************************)
(* Episodes.  A feed item is an episode object or a null entry.            *)
(***************************************************************************)
Episode(id, name, rel, dur, played) ==
    [id |-> id, name |-> name, release_date |-> rel, duration_ms |-> dur,
     fully_played |-> played, uri |-> <<"episode", id>>, isNull |-> FALSE]

NullItem == [id |-> NoEpisode, name |-> <<>>, release_date |-> 0, duration_ms |-> 0,
             fully_played |-> FALSE, uri |-> <<"episode", NoEpisode>>, isNull |-> TRUE]

Durations == {59999, 60000, 125000, 185000}

(***************************************************************************)
(* _determine_next_backlog_batch                                           *)
(***************************************************************************)
Bucket(ep) == ep.duration_ms \div MsPerMinute

backlog_by_minute_newest_first(backlog_episodes, minute) ==
    LET kept == SelectSeq(backlog_episodes, LAMBDA ep : Bucket(ep) = minute)
    IN  [j \in 1..Len(kept) |-> kept[Len(kept) + 1 - j]]

backlog_by_minute(backlog_episodes, minute) ==
    SelectSeq(backlog_episodes, LAMBDA ep : Bucket(ep) = minute)

RECURSIVE FirstKeys(_)
FirstKeys(eps) ==
    IF eps = <<>> THEN <<>>
    ELSE LET rest == FirstKeys(SubSeq(eps, 1, Len(eps) - 1))
             m == Bucket(eps[Len(eps)])
         IN  IF m \in Range(rest) THEN rest ELSE Append(rest, m)

sorted_minutes_unsorted(backlog_episodes) == FirstKeys(backlog_episodes)

sorted_minutes(backlog_episodes) == SortedSeq({Bucket(ep) : ep \in Range(backlog_episodes)})

next_minute_ge(mins, last_minute_processed) ==
    LET later == {i \in 1..Len(mins) : mins[i] >= last_minute_processed}
    IN  IF later # {} THEN mins[SetMin(later)] ELSE mins[1]

next_minute_to_add(mins, last_minute_processed) ==
    LET later == {i \in 1..Len(mins) : mins[i] > last_minute_processed}
    IN  IF later # {} THEN mins[SetMin(later)] ELSE mins[1]

determine_next_backlog_batch(backlog_episodes, last_minute_processed) ==
    IF backlog_episodes = <<>>
    THEN [batch |-> <<>>, minute |-> NoMinute]
    ELSE LET m == next_minute_to_add(sorted_minutes(backlog_episodes), last_minute_processed)
         IN  [batch |-> backlog_by_minute(backlog_episodes, m), minute |-> m]

(***************************************************************************)
(* _process_episodes_for_show.  The pages of sp.show_episodes / sp.next    *)
(* are read in feed order, so the scan is a left-to-right pass over the    *)
(* concatenated feed that stops at the first item whose id is the stored   *)
(* high-water mark.  Subscripting a null item raises.                      *)
(***************************************************************************)
RECURSIVE ScanItemsNoBreak(_, _, _, _)
ScanItemsNoBreak(items, k, last_seen_episode_id, found) ==
    IF k > Len(items) THEN [eps |-> found, raised |-> FALSE]
    ELSE LET episode == items[k]
         IN  IF episode.isNull THEN [eps |-> found, raised |-> TRUE]
             ELSE IF episode.id = last_seen_episode_id
                  THEN ScanItemsNoBreak(items, k + 1, last_seen_episode_id, found)
             ELSE IF episode.fully_played
                  THEN ScanItemsNoBreak(items, k + 1, last_seen_episode_id, found)
             ELSE IF IsBlocklisted(episode.name)
                  THEN ScanItemsNoBreak(items, k + 1, last_seen_episode_id, found)
             ELSE ScanItemsNoBreak(items, k + 1, last_seen_episode_id, Append(found, episode))

RECURSIVE ScanItems(_, _, _, _)
ScanItems(items, k, last_seen_episode_id, found) ==
    IF k > Len(items) THEN [eps |-> found, raised |-> FALSE]
    ELSE LET episode == items[k]
         IN  IF episode.isNull THEN [eps |-> found, raised |-> TRUE]
             ELSE IF episode.id = last_seen_episode_id
                  THEN [eps |-> found, raised |-> FALSE]
             ELSE IF episode.fully_played
                  THEN ScanItems(items, k + 1, last_seen_episode_id, found)
             ELSE IF IsBlocklisted(episode.name)
                  THEN ScanItems(items, k + 1, last_seen_episode_id, found)
             ELSE ScanItems(items, k + 1, last_seen_episode_id, Append(found, episode))

\* The result of one call: the episodes returned, the unplayed count, the
\* value of state['show_progress'][show] after the call, and whether the
\* call raised instead of returning.
process_episodes_for_show(items, last_seen_episode_id) ==
    LET r == ScanItems(items, 1, last_seen_episode_id, <<>>)
    IN  [newly_found_episodes |-> r.eps,
         unplayed_count_in_show |-> Len(r.eps),
         show_progress |-> IF r.eps # <<>> /\ ~r.raised THEN r.eps[1].id
                           ELSE last_seen_episode_id,
         raised |-> r.raised]

(***************************************************************************)
(* The batcher applied to drawn inputs.  bt.arg is the cursor passed to    *)
(* the last call, bt.batch and bt.minute what it returned, bt.visited the  *)
(* buckets returned so far when every call is fed the bucket the previous  *)
(* call returned, bt.start the cursor of the first call.  bt.min_duration  *)
(* is the user's minimum-duration setting (specification, section 3); the  *)
(* batcher has no parameter for it.                                        *)
(***************************************************************************)
BacklogEpisodes == {Episode(i, TitleNews, Epoch, d, FALSE) : i \in 1..MaxBacklog, d \in Durations}

Backlogs == {b \in SeqsUpTo(BacklogEpisodes, MaxBacklog) : \A i \in 1..Len(b) : b[i].id = i}

Cursors == NoMinute..MaxCursor

BtIdle == [backlog |-> <<>>, min_duration |-> 0, start |-> NoMinute, last |-> NoMinute,
           arg |-> NoMinute, batch |-> <<>>, minute |-> NoMinute, visited |-> <<>>]

ClIdle == [feed |-> <<>>, last_seen |-> NoEpisode, newly_found_episodes |-> <<>>,
           unplayed_count_in_show |-> 0, show_progress |-> NoEpisode,
           raised |-> FALSE, called |-> FALSE]

InitBatch ==
    \E b \in Backlogs, c \in Cursors, m \in {0, MaxMinDuration} :
        bt = [BtIdle EXCEPT !.backlog = b, !.min_duration = m, !.start = c, !.last = c]

BatchCall ==
    /\ Len(bt.visited) < MaxCalls
    /\ LET r == determine_next_backlog_batch(bt.backlog, bt.last)
       IN  bt' = [bt EXCEPT !.arg = bt.last, !.batch = r.batch, !.minute = r.minute,
                            !.last = r.minute, !.visited = Append(bt.visited, r.minute)]
    /\ UNCHANGED <<classvars, sysvars>>

(***************************************************************************)
(* The classifier applied to drawn feeds.  Items of a feed carry distinct  *)
(* ids, the newest (first) item the largest.                               *)
(***************************************************************************)
FeedItem(id) == {Episode(id, n, id, 125000, p) : n \in Titles, p \in BOOLEAN}
                    \cup {[NullItem EXCEPT !.id = id]}

FeedsOfLen(n) == {f \in [1..n -> UNION {FeedItem(i) : i \in 1..n}] :
                      \A k \in 1..n : f[k].id = n + 1 - k}

Feeds == UNION {FeedsOfLen(n) : n \in 0..MaxFeed}

InitClassify ==
    \E f \in Feeds, m \in 0..(MaxFeed + 1) :
        /\ m <= Len(f) + 1
        /\ cl = [ClIdle EXCEPT !.feed = [k \in 1..Len(f) |->
                                           IF f[k].isNull THEN NullItem ELSE f[k]],
                               !.last_seen = m, !.show_progress = m]

Classify ==
    /\ ~cl.called
    /\ LET r == process_episodes_for_show(cl.feed, cl.last_seen)
       IN  cl' = [cl EXCEPT !.newly_found_episodes = r.newly_found_episodes,
                            !.unplayed_count_in_show = r.unplayed_count_in_show,
                            !.show_progress = r.show_progress,
                            !.raised = r.raised, !.called = TRUE]
    /\ UNCHANGED <<batchvars, sysvars>>

(***************************************************************************)
(* The server, for one logged-in user.                                     *)
(***************************************************************************)
User == "u"
Shows == {1, 2}
Handlers == {1, 2}
Workers == {1, 2}

NoPlaylist == ""
OwnPlaylist == "P1"
CreatedPlaylist == "P2"
PreexistingItems == << <<"track", 1>> >>

\* What the catalogue API can serve: per show, its feed, newest first.  An
\* episode is in the feed from its release instant on.
Catalogs ==
    { [sh \in Shows |->
         IF sh = 1
         THEN << Episode(13, TitleNews, 2, 185000, FALSE),
                 Episode(12, TitleTrailer, 1, 59999, FALSE),
                 Episode(11, TitleNews, 1, 125000, FALSE) >>
         ELSE << Episode(22, TitleNews, 2, 60000, TRUE),
                 Episode(21, TitleNews, 1, 125000, FALSE) >>],
      [sh \in Shows |->
         IF sh = 1
         THEN << Episode(12, TitleNews, 1, 60000, TRUE),
                 Episode(11, TitleTrailer, 1, 59999, FALSE) >>
         ELSE << Episode(22, TitleNews, 2, 185000, FALSE),
                 NullItem,
                 Episode(21, TitleBonus, 1, 125000, FALSE) >>] }

show_episodes(cat, sh, t) == SelectSeq(cat[sh], LAMBDA e : e.release_date <= t)

current_user_saved_shows(cat, sv, t) ==
    [k \in 1..Len(sv) |-> [id |-> sv[k], total_episodes |-> Len(show_episodes(cat, sv[k], t))]]

\* _load_state: the record of the state file, a missing key read as the
\* default the code uses for it (lines 124-129, 144, 374).
EmptyState == [playlist_id |-> NoPlaylist, current_minute |-> NoMinute,
               last_update_ts |-> Epoch, show_progress |-> [sh \in Shows |-> NoEpisode],
               completed_shows |-> {}]

load_state(d) == d

save_state(state) == state

Job(message, progress, total, is_done, is_error) ==
    [message |-> message, progress |-> progress, total |-> total,
     is_done |-> is_done, is_error |-> is_error]

update_job_status(message, progress, total, is_done, is_error) ==
    User :> Job(message, progress, total, is_done, is_error)

ErrorJob == update_job_status("An error occurred", 1, 1, FALSE, TRUE)

WkIdle == [pc |-> "idle", outcome |-> "none", failed_at |-> "none",
           playlist_id |-> NoPlaylist, state |-> EmptyState, loaded |-> EmptyState,
           last_update_dt |-> Epoch, saved_shows |-> <<>>, i |-> 0,
           priority_episodes |-> <<>>, backlog_episodes |-> <<>>, returned |-> <<>>,
           next_batch |-> <<>>, next_minute |-> NoMinute, uris_to_add |-> <<>>, k |-> 0]

Running(w) == wk[w].pc # "idle"

InitSys ==
    /\ disk = EmptyState
    /\ background_jobs = <<>>
    /\ playlists = (OwnPlaylist :> PreexistingItems)
    /\ req = [r \in Handlers |-> "free"]
    /\ wk = [w \in Workers |-> WkIdle]
    /\ now = 1
    /\ saved = <<>>
    /\ catalog \in Catalogs
    /\ dispatched = 0

IdleSys ==
    /\ disk = EmptyState
    /\ background_jobs = <<>>
    /\ playlists = (OwnPlaylist :> PreexistingItems)
    /\ req = [r \in Handlers |-> "free"]
    /\ wk = [w \in Workers |-> WkIdle]
    /\ now = 1
    /\ saved = <<>>
    /\ catalog = [sh \in Shows |-> <<>>]
    /\ dispatched = 0

(***************************************************************************)
(* The environment: time passes, the user saves another show.              *)
(***************************************************************************)
Tick ==
    /\ now < MaxTime
    /\ now' = now + 1
    /\ UNCHANGED <<bt, cl, disk, background_jobs, playlists, req, wk, saved, catalog, dispatched>>

Subscribe(sh) ==
    /\ sh \notin Range(saved)
    /\ \A other \in Shows : other < sh => other \in Range(saved)
    /\ saved' = <<sh>> \o saved
    /\ UNCHANGED <<bt, cl, disk, background_jobs, playlists, req, wk, now, catalog, dispatched>>

(***************************************************************************)
(* Request handlers.  The development server (app.run) serves each request *)
(* on its own thread, so a handler can be preempted between its test of    *)
(* background_jobs and its later statements.                               *)
(***************************************************************************)
\* A request is served by the first handler thread that is free.
FreeHandler == IF \E r \in Handlers : req[r] = "free"
               THEN CHOOSE r \in Handlers : req[r] = "free" /\ \A q \in Handlers : req[q] = "free" => r <= q
               ELSE 0

start_update_check_blind(r) ==
    /\ r = FreeHandler
    /\ dispatched < MaxRuns
    /\ req' = [req EXCEPT ![r] = "passed"]
    /\ UNCHANGED <<bt, cl, disk, background_jobs, playlists, wk, now, saved, catalog, dispatched>>

\* start_update, line 370: the presence test.
start_update_check(r) ==
    /\ r = FreeHandler
    /\ dispatched < MaxRuns
    /\ req' = [req EXCEPT ![r] = IF User \in DOMAIN background_jobs THEN "free" ELSE "passed"]
    /\ UNCHANGED <<bt, cl, disk, background_jobs, playlists, wk, now, saved, catalog, dispatched>>

FreeWorker == CHOOSE w \in Workers : ~Running(w) /\ \A v \in Workers : ~Running(v) => w <= v

start_update_dispatch_unguarded(r) ==
    /\ req[r] = "passed"
    /\ \E w \in Workers : ~Running(w)
    /\ background_jobs' = update_job_status("Starting update...", 0, 0, FALSE, FALSE)
    /\ wk' = [wk EXCEPT ![FreeWorker] =
                  [WkIdle EXCEPT !.pc = "start", !.playlist_id = load_state(disk).playlist_id]]
    /\ dispatched' = dispatched + 1
    /\ req' = [req EXCEPT ![r] = "free"]
    /\ UNCHANGED <<bt, cl, disk, playlists, now, saved, catalog>>

\* start_update, lines 373-385: load the state, refuse without a playlist,
\* else register the job and start the worker thread.
start_update_dispatch(r) ==
    /\ req[r] = "passed"
    /\ LET state == load_state(disk)
       IN  \/ /\ state.playlist_id = NoPlaylist
              /\ req' = [req EXCEPT ![r] = "free"]
              /\ UNCHANGED <<background_jobs, wk, dispatched>>
           \/ /\ state.playlist_id # NoPlaylist
              /\ \E w \in Workers : ~Running(w)
              /\ background_jobs' = update_job_status("Starting update...", 0, 0, FALSE, FALSE)
              /\ wk' = [wk EXCEPT ![FreeWorker] =
                            [WkIdle EXCEPT !.pc = "start", !.playlist_id = state.playlist_id]]
              /\ dispatched' = dispatched + 1
              /\ req' = [req EXCEPT ![r] = "free"]
    /\ UNCHANGED <<bt, cl, disk, playlists, now, saved, catalog>>

\* create_playlist_and_scan, line 390: the presence test.
create_playlist_and_scan_check(r) ==
    /\ r = FreeHandler
    /\ dispatched < MaxRuns
    /\ CreatedPlaylist \notin DOMAIN playlists
    /\ req' = [req EXCEPT ![r] = IF User \in DOMAIN background_jobs THEN "free" ELSE "creating"]
    /\ UNCHANGED <<bt, cl, disk, background_jobs, playlists, wk, now, saved, catalog, dispatched>>

\* create_playlist_and_scan, lines 393-408: create the playlist (the call can
\* raise, which ends the request), store its id, then enter start_update,
\* whose presence test (line 370) is evaluated here.
create_playlist_and_scan_create(r) ==
    /\ req[r] = "creating"
    /\ \/ /\ req' = [req EXCEPT ![r] = "free"]
          /\ UNCHANGED <<disk, playlists>>
       \/ /\ CreatedPlaylist \notin DOMAIN playlists
          /\ playlists' = playlists @@ (CreatedPlaylist :> <<>>)
          /\ disk' = save_state([load_state(disk) EXCEPT !.playlist_id = CreatedPlaylist])
          /\ req' = [req EXCEPT ![r] = IF User \in DOMAIN background_jobs THEN "free" ELSE "passed"]
    /\ UNCHANGED <<bt, cl, background_jobs, wk, now, saved, catalog, dispatched>>

\* extract_item_id on the form text: a URL or URI with a playlist, show or
\* episode path yields the id after it, a bare alphanumeric token yields
\* itself, anything else None.
PlaylistInputs == { [path |-> "playlist", token |-> OwnPlaylist],
                    [path |-> "", token |-> OwnPlaylist],
                    [path |-> "", token |-> ""] }

extract_item_id(text) ==
    IF text.path \in {"playlist", "show", "episode"} /\ text.token # "" THEN text.token
    ELSE IF text.token # "" THEN text.token
    ELSE NoPlaylist

set_playlist(playlist_input) ==
    /\ disk' = IF extract_item_id(playlist_input) = NoPlaylist THEN disk
               ELSE save_state([load_state(disk) EXCEPT
                                   !.playlist_id = extract_item_id(playlist_input),
                                   !.current_minute = NoMinute])
    /\ UNCHANGED <<bt, cl, background_jobs, playlists, req, wk, now, saved, catalog, dispatched>>

\* status, lines 437-445.
status ==
    /\ background_jobs' = IF User \in DOMAIN background_jobs
                             /\ (background_jobs[User].is_done \/ background_jobs[User].is_error)
                          THEN <<>> ELSE background_jobs
    /\ UNCHANGED <<bt, cl, disk, playlists, req, wk, now, saved, catalog, dispatched>>

(***************************************************************************)
(* run_update_task, the worker thread.                                     *)
(***************************************************************************)
\* The exception handler of lines 171-173.
Ended(me, outcome, at) ==
    [WkIdle EXCEPT !.outcome = outcome, !.failed_at = at]

Fail(w, at) ==
    /\ wk' = [wk EXCEPT ![w] = Ended(wk[w], "error", at)]
    /\ background_jobs' = ErrorJob

\* Lines 120-138: before the try block, get_spotify_client returns a client
\* or None, or raises (the session lookup, the token refresh), which ends
\* the thread with nothing caught; the state is loaded; inside the try
\* block _fetch_all_shows reports its status and lists the saved shows,
\* which raises without a client or when the remote call fails.
run_update_task_begin(w) ==
    /\ wk[w].pc = "start"
    /\ LET state == load_state(disk)
           saved_shows == current_user_saved_shows(catalog, saved, now)
       IN  \/ /\ saved_shows = <<>>
              /\ background_jobs' = update_job_status("No saved shows found.", 1, 1, FALSE, FALSE)
              /\ wk' = [wk EXCEPT ![w] = Ended(wk[w], "noshows", "none")]
           \/ /\ wk' = [wk EXCEPT ![w] = Ended(wk[w], "crashed", "start")]
              /\ UNCHANGED background_jobs
           \/ Fail(w, "fetch")
           \/ /\ saved_shows # <<>>
              /\ background_jobs' = update_job_status("Fetching saved shows...", 0, 1, FALSE, FALSE)
              /\ wk' = [wk EXCEPT ![w].pc = "scan", ![w].state = state, ![w].loaded = state,
                                  ![w].last_update_dt = state.last_update_ts,
                                  ![w].saved_shows = saved_shows]
    /\ UNCHANGED <<bt, cl, disk, playlists, req, now, saved, catalog, dispatched>>

is_priority_ge(release_dt, last_update_dt) == release_dt >= last_update_dt

is_priority(release_dt, last_update_dt) == release_dt > last_update_dt

scanned_state_moving_cursor(state, show, r) ==
    [state EXCEPT !.show_progress[show.id] = r.show_progress,
                  !.current_minute =
                      IF r.newly_found_episodes # <<>>
                      THEN r.newly_found_episodes[1].duration_ms \div MsPerMinute
                      ELSE state.current_minute,
                  !.completed_shows =
                      IF r.unplayed_count_in_show = 0 /\ show.total_episodes > 0
                      THEN state.completed_shows \cup {show.id}
                      ELSE state.completed_shows]

\* Lines 204-207: the state dict after the classifier ran on a show.
scanned_state(state, show, r) ==
    [state EXCEPT !.show_progress[show.id] = r.show_progress,
                  !.completed_shows =
                      IF r.unplayed_count_in_show = 0 /\ show.total_episodes > 0
                      THEN state.completed_shows \cup {show.id}
                      ELSE state.completed_shows]

\* One iteration of the loop of _scan_all_shows, lines 196-218.
scan_all_shows(w) ==
    /\ wk[w].pc = "scan"
    /\ LET me == wk[w]
           total_shows == Len(me.saved_shows)
           show == me.saved_shows[me.i + 1]
           nextpc == IF me.i + 1 < total_shows THEN "scan" ELSE "update"
           r == process_episodes_for_show(show_episodes(catalog, show.id, now),
                                          me.state.show_progress[show.id])
       IN  \/ /\ show.id \in me.state.completed_shows
              /\ background_jobs' = update_job_status("Skipping completed", me.i, total_shows, FALSE, FALSE)
              /\ wk' = [wk EXCEPT ![w].i = me.i + 1, ![w].pc = nextpc]
              /\ UNCHANGED disk
           \/ /\ show.id \notin me.state.completed_shows
              /\ Fail(w, "scan")
              /\ UNCHANGED disk
           \/ /\ show.id \notin me.state.completed_shows
              /\ ~r.raised
              /\ background_jobs' = update_job_status("Scanning", me.i, total_shows, FALSE, FALSE)
              /\ wk' = [wk EXCEPT
                     ![w].state = scanned_state(me.state, show, r),
                     ![w].returned = me.returned \o r.newly_found_episodes,
                     ![w].priority_episodes = me.priority_episodes \o
                         SelectSeq(r.newly_found_episodes,
                                   LAMBDA e : is_priority(e.release_date, me.last_update_dt)),
                     ![w].backlog_episodes = me.backlog_episodes \o
                         SelectSeq(r.newly_found_episodes,
                                   LAMBDA e : ~is_priority(e.release_date, me.last_update_dt)),
                     ![w].i = me.i + 1, ![w].pc = nextpc]
              /\ disk' = IF me.i % CheckpointEvery = 0
                         THEN save_state(scanned_state(me.state, show, r))
                         ELSE disk
    /\ UNCHANGED <<bt, cl, playlists, req, now, saved, catalog, dispatched>>

\* sorted(priority_eps, key=duration_ms): a stable sort.
RECURSIVE sort_by_duration(_)
sort_by_duration(eps) ==
    IF eps = <<>> THEN <<>>
    ELSE LET last == eps[Len(eps)]
             rest == sort_by_duration(SubSeq(eps, 1, Len(eps) - 1))
         IN  SelectSeq(rest, LAMBDA e : e.duration_ms <= last.duration_ms)
                 \o <<last>> \o
             SelectSeq(rest, LAMBDA e : e.duration_ms > last.duration_ms)

Uris(eps) == [j \in 1..Len(eps) |-> eps[j].uri]

\* Lines 144-154: the batch, the URI list, and the clearing of the playlist.
update_playlist(w) ==
    /\ wk[w].pc = "update"
    /\ LET me == wk[w]
           last_minute == me.state.current_minute
           b == determine_next_backlog_batch(me.backlog_episodes, last_minute)
           uris_to_add == Uris(sort_by_duration(me.priority_episodes)) \o Uris(b.batch)
           total == Len(me.saved_shows)
           planned == [me EXCEPT !.next_batch = b.batch, !.next_minute = b.minute,
                                 !.uris_to_add = uris_to_add]
       IN  \/ /\ uris_to_add = <<>>
              /\ background_jobs' = update_job_status("Updating playlist", total, total, FALSE, FALSE)
              /\ wk' = [wk EXCEPT ![w] = [planned EXCEPT !.pc = "save"]]
              /\ UNCHANGED playlists
           \/ /\ uris_to_add # <<>>
              /\ background_jobs' = ErrorJob
              /\ wk' = [wk EXCEPT ![w] = Ended(planned, "error", "replace")]
              /\ UNCHANGED playlists
           \/ /\ uris_to_add # <<>>
              /\ me.playlist_id \in DOMAIN playlists
              /\ background_jobs' = update_job_status("Updating playlist", total, total, FALSE, FALSE)
              /\ playlists' = [playlists EXCEPT ![me.playlist_id] = <<>>]
              /\ wk' = [wk EXCEPT ![w] = [planned EXCEPT !.pc = "add", !.k = 0]]
    /\ UNCHANGED <<bt, cl, disk, req, now, saved, catalog, dispatched>>

\* One iteration of the loop of lines 155-156.
playlist_add_items(w) ==
    /\ wk[w].pc = "add"
    /\ LET me == wk[w]
           n == Len(me.uris_to_add)
           hi == IF me.k + ChunkSize < n THEN me.k + ChunkSize ELSE n
       IN  \/ /\ Fail(w, "add")
              /\ UNCHANGED playlists
           \/ /\ playlists' = [playlists EXCEPT ![me.playlist_id] =
                                   @ \o SubSeq(me.uris_to_add, me.k + 1, hi)]
              /\ wk' = [wk EXCEPT ![w].k = me.k + ChunkSize,
                                  ![w].pc = IF me.k + ChunkSize < n THEN "add" ELSE "save"]
              /\ UNCHANGED background_jobs
    /\ UNCHANGED <<bt, cl, disk, req, now, saved, catalog, dispatched>>

\* Lines 159-169.
final_state(state, next_minute, t) ==
    [state EXCEPT !.current_minute = next_minute, !.last_update_ts = t]

save_final_state(w) ==
    /\ wk[w].pc = "save"
    /\ disk' = save_state(final_state(wk[w].state, wk[w].next_minute, now))
    /\ background_jobs' = update_job_status("Update complete!", 100, 100, TRUE, FALSE)
    /\ wk' = [wk EXCEPT ![w] = Ended(wk[w], "done", "none")]
    /\ UNCHANGED <<bt, cl, playlists, req, now, saved, catalog, dispatched>>

(***************************************************************************)
(* The specifications.                                                     *)
(***************************************************************************)
Init == InitSys /\ bt = BtIdle /\ cl = ClIdle

Next ==
    \/ Tick
    \/ \E sh \in Shows : Subscribe(sh)
    \/ \E r \in Handlers : start_update_check(r)
    \/ \E r \in Handlers : start_update_dispatch(r)
    \/ \E r \in Handlers : create_playlist_and_scan_check(r)
    \/ \E r \in Handlers : create_playlist_and_scan_create(r)
    \/ \E x \in PlaylistInputs : set_playlist(x)
    \/ status
    \/ \E w \in Workers : run_update_task_begin(w)
    \/ \E w \in Workers : scan_all_shows(w)
    \/ \E w \in Workers : update_playlist(w)
    \/ \E w \in Workers : playlist_add_items(w)
    \/ \E w \in Workers : save_final_state(w)

Spec == Init /\ [][Next]_vars

InitB == InitBatch /\ cl = ClIdle /\ IdleSys

NextB == BatchCall

SpecBatch == InitB /\ [][NextB]_vars

InitC == InitClassify /\ bt = BtIdle /\ IdleSys

NextC == Classify

SpecClassify == InitC /\ [][NextC]_vars

\* The server process started again on the state file that an earlier
\* successful run left: the user follows show 1, the run at instant 1 found
\* its episode 11, wrote it to the playlist and saved the mark, and the
\* completion was polled.  The registry (line 38) is empty after a start.
RestartCatalog ==
    [sh \in Shows |->
        IF sh = 1
        THEN << Episode(12, TitleNews, 2, 60000, FALSE),
                Episode(11, TitleNews, 1, 125000, FALSE) >>
        ELSE << Episode(23, TitleNews, 1, 185000, FALSE),
                Episode(22, TitleNews, 1, 59999, FALSE),
                Episode(21, TitleNews, 1, 185000, FALSE) >>]

StateAfterFirstRun ==
    [EmptyState EXCEPT !.playlist_id = OwnPlaylist,
                       !.last_update_ts = 1,
                       !.show_progress = [sh \in Shows |-> IF sh = 1 THEN 11 ELSE NoEpisode]]

InitRestart ==
    /\ disk = StateAfterFirstRun
    /\ background_jobs = <<>>
    /\ playlists = OwnPlaylist :> << <<"episode", 11>> >>
    /\ req = [r \in Handlers |-> "free"]
    /\ wk = [w \in Workers |-> WkIdle]
    /\ now = 1
    /\ saved = <<1>>
    /\ catalog = RestartCatalog
    /\ dispatched = 0
    /\ bt = BtIdle
    /\ cl = ClIdle

\* Requests served one at a time (a single handler thread), each run in its
\* own worker thread.
NextSerial ==
    \/ Tick
    \/ \E sh \in Shows : Subscribe(sh)
    \/ start_update_check(1)
    \/ start_update_dispatch(1)
    \/ create_playlist_and_scan_check(1)
    \/ create_playlist_and_scan_create(1)
    \/ \E x \in PlaylistInputs : set_playlist(x)
    \/ status
    \/ run_update_task_begin(1)
    \/ scan_all_shows(1)
    \/ update_playlist(1)
    \/ playlist_add_items(1)
    \/ save_final_state(1)

SpecRestart == InitRestart /\ [][NextSerial]_vars

(***************************************************************************)
(* Properties.                                                             *)
(***************************************************************************)
Buckets(eps) == {Bucket(e) : e \in Range(eps)}

Occurrences(eps, e) == Cardinality({j \in 1..Len(eps) : eps[j] = e})

Terminal(job) == job.is_done \/ job.is_error

\* C4: after a call of the batcher with cursor bt.arg, the bucket returned is
\* the smallest bucket of the backlog above the cursor when there is one,
\* else the smallest bucket of the backlog; ([], -1) is returned exactly when
\* the backlog holds no episode.
C4_NextBucket ==
    Len(bt.visited) > 0 =>
        LET B == Buckets(bt.backlog)
            G == {b \in B : b > bt.arg}
        IN  /\ (bt.batch = <<>> /\ bt.minute = NoMinute) <=> (B = {})
            /\ B # {} => bt.minute \in B
            /\ G # {} => bt.minute \in G /\ \A g \in G : bt.minute <= g
            /\ (B # {} /\ G = {}) => \A b \in B : bt.minute <= b

C4_Witness ==
    /\ Len(bt.visited) > 0
    /\ Cardinality(Buckets(bt.backlog)) >= 2
    /\ \A b \in Buckets(bt.backlog) : b <= bt.arg
    /\ bt.minute < bt.arg

\* C5: fed its own result from cursor -1 on, the batcher returns the distinct
\* buckets of a non-empty backlog in strictly ascending order, each once,
\* and only then a bucket it returned before.
C5_RoundRobin ==
    (bt.start = NoMinute /\ bt.backlog # <<>>) =>
        LET K == Cardinality(Buckets(bt.backlog))
            n == IF Len(bt.visited) < K THEN Len(bt.visited) ELSE K
        IN  /\ \A j \in 1..n : bt.visited[j] \in Buckets(bt.backlog)
            /\ \A j \in 2..n : bt.visited[j - 1] < bt.visited[j]
            /\ Len(bt.visited) >= K => {bt.visited[j] : j \in 1..K} = Buckets(bt.backlog)
            /\ Len(bt.visited) > K => bt.visited[K + 1] = bt.visited[1]

C5_Witness ==
    /\ bt.start = NoMinute
    /\ Cardinality(Buckets(bt.backlog)) = 3
    /\ Len(bt.visited) = 4

\* C10 (as claimed): the batch holds no episode whose duration bucket is
\* below the user's min_duration.
C10_MinDurationRespected ==
    Len(bt.visited) > 0 => \A e \in Range(bt.batch) : Bucket(e) >= bt.min_duration

\* C6: when the stored high-water mark is in the feed, the classifier
\* returns no episode at or after the mark's position, no fully played
\* episode and no episode with a blocklisted title.
MarkPosition == CHOOSE k \in 1..Len(cl.feed) : cl.feed[k].id = cl.last_seen

C6_ClassifierExcludes ==
    (cl.called /\ ~cl.raised /\ cl.last_seen # NoEpisode
        /\ \E k \in 1..Len(cl.feed) : cl.feed[k].id = cl.last_seen) =>
        \A e \in Range(cl.newly_found_episodes) :
            /\ \E k \in 1..(MarkPosition - 1) : cl.feed[k] = e
            /\ \A k \in MarkPosition..Len(cl.feed) : cl.feed[k] # e
            /\ ~e.fully_played
            /\ \A kw \in BLOCKLIST_KEYWORDS : ~Contains(kw, Lower(e.name))

C6_Witness ==
    /\ cl.called /\ ~cl.raised
    /\ Len(cl.feed) = 3
    /\ cl.feed[2].id = cl.last_seen
    /\ ~cl.feed[3].fully_played /\ cl.feed[3].name = TitleNews
    /\ cl.newly_found_episodes = <<cl.feed[1]>>

\* C7 (as claimed): after the scan of a non-empty feed the high-water mark
\* is the id of the newest episode of the feed.
C7_MarkIsNewest ==
    (cl.called /\ ~cl.raised /\ cl.feed # <<>>) => cl.show_progress = cl.feed[1].id

\* C1 (as claimed): when a run fails during the scan, the persisted
\* show_progress, current_minute and last_update_ts are the values the run
\* loaded at its start.
C1_NothingPersistedOnError ==
    [][\A w \in Workers :
          (wk[w].pc = "scan" /\ wk'[w].pc = "idle" /\ wk'[w].outcome = "error") =>
              /\ disk'.show_progress = wk[w].loaded.show_progress
              /\ disk'.current_minute = wk[w].loaded.current_minute
              /\ disk'.last_update_ts = wk[w].loaded.last_update_ts]_vars

\* C1 (amended): a run that is scanning writes the state file only in the
\* checkpoint after a scanned show, never in the step that fails, and every
\* such write carries the current_minute and last_update_ts the run loaded
\* at its start; only show_progress and completed_shows are persisted ahead
\* of the success path.
C1_FailedRunKeepsCursor ==
    [][\A w \in Workers :
          (wk[w].pc = "scan" /\ wk'[w] # wk[w]) =>
              /\ disk' # disk =>
                    /\ wk'[w].outcome # "error"
                    /\ wk[w].i % CheckpointEvery = 0
                    /\ disk'.current_minute = wk[w].loaded.current_minute
                    /\ disk'.last_update_ts = wk[w].loaded.last_update_ts
                    /\ disk'.playlist_id = wk[w].loaded.playlist_id
              /\ wk'[w].outcome = "error" => disk' = disk]_vars

\* The only run so far has failed in its scan after its checkpoint wrote an
\* advanced show_progress to the state file.
C1_Witness ==
    /\ wk[1].outcome = "error" /\ wk[1].failed_at = "scan"
    /\ wk[2] = WkIdle
    /\ dispatched = 1
    /\ \E sh \in Shows : disk.show_progress[sh] # NoEpisode
    /\ disk.current_minute = NoMinute /\ disk.last_update_ts = Epoch

\* C2 (as claimed): at most one worker of the user is executing.
C2_OneWorker == Cardinality({w \in Workers : Running(w)}) <= 1

\* C3 (as claimed), in the form a finite run refutes: a registry entry that
\* is not terminal has a thread that will still write it, a running worker
\* or a handler past its presence test.
C3_EntryBecomesTerminal ==
    (User \in DOMAIN background_jobs /\ ~Terminal(background_jobs[User])) =>
        \/ \E w \in Workers : Running(w)
        \/ \E r \in Handlers : req[r] = "passed"

\* C8: every episode the classifier returned in a run is in exactly one of
\* priority_episodes and backlog_episodes, once: in priority_episodes when
\* its release instant is after the last_update_ts the run loaded, in
\* backlog_episodes otherwise.
C8_PriorityBacklogSplit ==
    \A w \in Workers :
        \A e \in Range(wk[w].returned) :
            /\ Occurrences(wk[w].priority_episodes, e) + Occurrences(wk[w].backlog_episodes, e) = 1
            /\ e.release_date > wk[w].loaded.last_update_ts => e \in Range(wk[w].priority_episodes)
            /\ e.release_date <= wk[w].loaded.last_update_ts => e \in Range(wk[w].backlog_episodes)

C8_Witness ==
    \E w \in Workers :
        /\ wk[w].priority_episodes # <<>>
        /\ \E e \in Range(wk[w].backlog_episodes) : e.release_date = wk[w].loaded.last_update_ts
        /\ Len(wk[w].returned) >= 2

\* C9 (as claimed): once a run has written the playlist and only its state
\* save remains, the playlist holds exactly the run's URI list.
C9_PlaylistIsUriList ==
    \A w \in Workers : wk[w].pc = "save" => playlists[wk[w].playlist_id] = wk[w].uris_to_add

\* C20: for a non-empty backlog the batch is exactly the backlog episodes
\* whose duration bucket is the returned bucket, each once, in the order
\* they have in the backlog.
C20_BatchIsBucket ==
    (Len(bt.visited) > 0 /\ bt.backlog # <<>>) =>
        LET I == {i \in 1..Len(bt.backlog) : bt.backlog[i].duration_ms \div MsPerMinute = bt.minute}
            Nth(j) == CHOOSE i \in I : Cardinality({h \in I : h <= i}) = j
        IN  /\ Len(bt.batch) = Cardinality(I)
            /\ \A j \in 1..Len(bt.batch) : bt.batch[j] = bt.backlog[Nth(j)]

C20_Witness ==
    /\ Len(bt.visited) > 0
    /\ Len(bt.backlog) = 3
    /\ Len(bt.batch) = 2
    /\ bt.batch = <<bt.backlog[1], bt.backlog[3]>>

\* C17 (as claimed): a feed that holds null entries is scanned without
\* raising, and the episodes returned are those of the feed without its
\* null entries.
C17_NullEntriesSkipped ==
    cl.called =>
        /\ ~cl.raised
        /\ cl.newly_found_episodes =
               process_episodes_for_show(SelectSeq(cl.feed, LAMBDA e : ~e.isNull),
                                         cl.last_seen).newly_found_episodes

Present(jobs) == User \in DOMAIN jobs

\* An episode that is still to be listened to: neither fully played nor
\* excluded by the blocklist (lines 241-245).
Outstanding(e) == ~e.isNull /\ ~e.fully_played /\ ~IsBlocklisted(e.name)

\* C11 (as claimed): a show identifier that is present in the persisted
\* show_progress or completed_shows is present in every later persisted
\* state.
C11_PersistedMapsGrow ==
    [][\A sh \in Shows :
          /\ disk.show_progress[sh] # NoEpisode => disk'.show_progress[sh] # NoEpisode
          /\ sh \in disk.completed_shows => sh \in disk'.completed_shows]_vars

\* C13 (as claimed): when a run records a show in completed_shows, the
\* show's feed holds no episode that is neither fully played nor blocklisted.
C13_CompletedHasNothingOutstanding ==
    [][\A w \in Workers : \A sh \in Shows :
          (/\ wk[w].pc = "scan"
           /\ sh \notin wk[w].state.completed_shows
           /\ wk'[w].pc \in {"scan", "update"}
           /\ sh \in wk'[w].state.completed_shows)
          => \A e \in Range(show_episodes(catalog, sh, now)) : ~Outstanding(e)]_vars

\* C14 (as claimed): a terminal entry leaves the registry only by being read
\* and removed by a poll, and once the poll has removed it the user has no
\* entry (the next poll answers idle) until a new run is started.
C14_PollProtocol ==
    [][/\ (Present(background_jobs) /\ Terminal(background_jobs[User])
              /\ background_jobs' # background_jobs)
          => background_jobs' = <<>>
       /\ (~Present(background_jobs) /\ Present(background_jobs'))
          => dispatched' = dispatched + 1]_vars

\* C15: a start_update or create_playlist_and_scan request that finds an
\* entry of the user in the registry ends at its presence test: a handler
\* leaves its resting state only when the user has no entry, so the request
\* dispatches no worker and changes neither the entry nor the state file.
C15_RequestWithEntryIsNoOp ==
    [][\A r \in Handlers :
          (req[r] = "free" /\ req'[r] # "free") => ~Present(background_jobs)]_vars

C15_Witness ==
    /\ Present(background_jobs)
    /\ \E w \in Workers : Running(w)
    /\ FreeHandler = 1
    /\ dispatched < MaxRuns
    /\ CreatedPlaylist \notin DOMAIN playlists

\* C16: a start_update request that has passed the presence test and loads
\* a state without playlist_id ends there: no registry entry is written, no
\* worker is started, the state file and the playlists are untouched.
C16_NoPlaylistNoRun ==
    [][\A r \in Handlers :
          (req[r] = "passed" /\ req'[r] # "passed" /\ load_state(disk).playlist_id = NoPlaylist)
          => /\ background_jobs' = background_jobs
             /\ wk' = wk
             /\ dispatched' = dispatched
             /\ disk' = disk
             /\ playlists' = playlists]_vars

C16_Witness ==
    /\ \E r \in Handlers : req[r] = "passed"
    /\ disk.playlist_id = NoPlaylist
    /\ \A w \in Workers : ~Running(w)

\* C19 (as claimed): the final save of a run leaves the persisted
\* playlist_id as it finds it, so a playlist_id stored by set_playlist
\* during the run is still the persisted one when the run has finished.
C19_FinalSaveKeepsPlaylist ==
    [][\A w \in Workers :
          (wk[w].pc = "save" /\ wk'[w].outcome = "done")
          => disk'.playlist_id = disk.playlist_id]_vars

\* C12 (as claimed): the current_minute a successful run persists is not
\* below the one it replaces, unless the cursor wraps: the replaced value is
\* at or past the largest bucket of the backlog and the new value is its
\* smallest bucket.
C12_CursorOnlyAdvancesOrWraps ==
    [][\A w \in Workers :
          (wk[w].pc = "save" /\ wk'[w].outcome = "done")
          => \/ disk'.current_minute >= disk.current_minute
             \/ /\ wk[w].backlog_episodes # <<>>
                /\ \A b \in Buckets(wk[w].backlog_episodes) :
                       disk'.current_minute <= b /\ b <= disk.current_minute]_vars

\* C18 (as claimed), in the form a finite run decides: when a successful run
\* ends, each episode it classified as backlog is in the batch the run wrote
\* to the playlist or is still returned by a scan from the saved state, so
\* that a later run can surface it.  An episode for which neither holds is
\* behind the saved mark of its show and no later run fetches it.
C18_BacklogStaysReachable ==
    [][\A w \in Workers :
          (wk[w].pc = "save" /\ wk'[w].outcome = "done")
          => \A e \in Range(wk[w].backlog_episodes) :
                \/ e.uri \in Range(wk[w].uris_to_add)
                \/ \E sh \in Shows \ disk'.completed_shows :
                       e \in Range(process_episodes_for_show(
                                       show_episodes(catalog, sh, now),
                                       disk'.show_progress[sh]).newly_found_episodes)]_vars

====
